---- MODULE Spec2Model ----
(***************************************************************************)
(* pyrkit: validate.py (hierarchy walker, path mapper, metadata differ,    *)
(* reconciliation driver) and dme_utils.py (remote catalog session).       *)
(*                                                                         *)
(* Strings are sequences of tokens.  A token is a piece of text that holds *)
(* neither "/" nor "."; "/" and "." are tokens of their own, so substring  *)
(* tests, split() and replace() are computed on the sequence the way       *)
(* Python computes them on the characters.                                 *)
(*                                                                         *)
(* Sidecar files and remote documents are well formed: json.load succeeds  *)
(* and every document holds 'metadataEntries' with 'attribute' and 'value' *)
(* strings.  The listing of a directory, the answer of the remote catalog  *)
(* and the environment of the session are chosen by the environment.       *)
(***************************************************************************)
EXTENDS Integers, Sequences, FiniteSets, TLC

\* ------------------------------------------------------------------ bounds
\* longest command line (arguments after the script name)
MaxArgs == 3
\* most entries of a listing of the input, PI_Lab or Project directory
MaxListing == 3
\* most entries of a listing of a Primary-Analysis or Sample directory
MaxObjs == 2

\* ----------------------------------------------------------- string helpers
\* Python: sub in s
Has(s, sub) ==
    \E k \in 1..(Len(s) - Len(sub) + 1) : SubSeq(s, k, k + Len(sub) - 1) = sub

\* index of the first occurrence of sub in s, 0 when there is none
Find(s, sub) ==
    IF Has(s, sub)
    THEN CHOOSE k \in 1..(Len(s) - Len(sub) + 1) :
            /\ SubSeq(s, k, k + Len(sub) - 1) = sub
            /\ \A m \in 1..(k - 1) : SubSeq(s, m, m + Len(sub) - 1) # sub
    ELSE 0

\* Python: s.split(sep)[0]
SplitFirst(s, sep) ==
    IF Find(s, sep) = 0 THEN s ELSE SubSeq(s, 1, Find(s, sep) - 1)

\* Python: s.replace('//', '/'): one pass, left to right, matches do not overlap
RECURSIVE ReplaceDoubleSlash(_)
ReplaceDoubleSlash(s) ==
    IF Len(s) < 2 THEN s
    ELSE IF s[1] = "/" /\ s[2] = "/"
         THEN <<"/">> \o ReplaceDoubleSlash(SubSeq(s, 3, Len(s)))
         ELSE <<s[1]>> \o ReplaceDoubleSlash(Tail(s))

\* Python: s.replace('/', '')
RemoveSlash(s) == SelectSeq(s, LAMBDA c : c # "/")

\* the sequences over S, at most n long
RECURSIVE SeqsUpTo(_, _)
SeqsUpTo(S, n) ==
    IF n = 0 THEN {<<>>}
    ELSE LET shorter == SeqsUpTo(S, n - 1)
         IN  shorter \cup {Append(q, x) : q \in {r \in shorter : Len(r) = n - 1}, x \in S}

\* the sequences of distinct elements of S, at most n long
DistinctSeqs(S, n) ==
    {q \in SeqsUpTo(S, n) : \A a, b \in 1..Len(q) : a # b => q[a] # q[b]}

IsPrefix(s, t) == Len(s) <= Len(t) /\ SubSeq(t, 1, Len(s)) = s

Range(s) == {s[k] : k \in 1..Len(s)}

\* --------------------------------------------------------------- file names
\* validate.py:128: the suffix every sidecar carries
Suffix == <<".", "metadata", ".", "json">>

\* the level markers of validate.py:128, 140, 160, 181
Markers == {"PI_Lab", "Project_", "Primary_Analysis_", "Sample_"}

\* the sidecar <marker><stem>.metadata.json
Sidecar(marker, stem) == <<marker>> \o stem \o Suffix

\* names a listing of the input, PI_Lab or Project directory is drawn from
LevelNames ==
    { Sidecar("PI_Lab", <<"a">>), Sidecar("Project_", <<"a">>),
      Sidecar("Primary_Analysis_", <<"a">>),
      Sidecar("Sample_", <<"a">>), Sidecar("Sample_", <<"b">>) }

\* names a listing of a Primary-Analysis or Sample directory is drawn from
ObjNames == { <<"a">> \o Suffix, Sidecar("Sample_", <<"a">>) }

DirListings == DistinctSeqs(LevelNames, MaxListing)

ObjListings == DistinctSeqs(ObjNames, MaxObjs)

\* ---------------------------------------------------------- hierarchy walker
\* what a walker returns when it ends the process (sys.exit(1))
Exited == [ok |-> FALSE, meta |-> <<>>, directory |-> <<>>]

\* json2dict(f"{path}/{name}"): the document is identified by the file read
json2dict(path, name) == path \o <<"/">> \o name

\* the files of a listing whose name holds the marker and '.metadata.json'
MarkedFiles(listing, marker) ==
    SelectSeq(listing, LAMBDA f : Has(f, <<marker>>) /\ Has(f, Suffix))

\* the unique-match walker shared by get_pi_lab, get_project and get_analysis
UniqueNode(path, listing, marker) ==
    LET files == MarkedFiles(listing, marker)
    IN  IF Len(files) # 1 THEN Exited
        ELSE [ok |-> TRUE,
              meta |-> json2dict(path, files[1]),
              directory |-> path \o <<"/">> \o SplitFirst(files[1], <<".">>)]

get_pi_lab(path, listing) == UniqueNode(path, listing, "PI_Lab")

get_project(path, listing) == UniqueNode(path, listing, "Project_")

\* get_analysis without its call of get_analysis_objects
get_analysis(path, listing) == UniqueNode(path, listing, "Primary_Analysis_")

\* a scan that would leave out the names that carry a level marker
ObjectFiles_Unmarked(listing) ==
    SelectSeq(listing, LAMBDA f : Has(f, Suffix) /\ \A m \in Markers : ~Has(f, <<m>>))

\* every file of the listing whose name holds '.metadata.json'
ObjectFiles(listing) == SelectSeq(listing, LAMBDA f : Has(f, Suffix))

\* get_analysis_objects(path) on the listing of path: <<metas, directories>>
get_analysis_objects(path, listing) ==
    LET files == ObjectFiles(listing)
    IN  [metas |-> [k \in 1..Len(files) |-> json2dict(path, files[k])],
         directories |-> [k \in 1..Len(files) |->
                            path \o <<"/">> \o SplitFirst(files[k], Suffix)]]

\* get_sample_objects(path) on the listing of path
get_sample_objects(path, listing) ==
    LET files == ObjectFiles(listing)
    IN  [metas |-> [k \in 1..Len(files) |-> json2dict(path, files[k])],
         directories |-> [k \in 1..Len(files) |->
                            path \o <<"/">> \o SplitFirst(files[k], Suffix)]]

\* get_samples(path) without its calls of get_sample_objects
get_samples(path, listing) ==
    LET files == MarkedFiles(listing, "Sample_")
    IN  [metas |-> [k \in 1..Len(files) |-> json2dict(path, files[k])],
         directories |-> [k \in 1..Len(files) |->
                            path \o <<"/">> \o SplitFirst(files[k], <<".">>)]]

\* -------------------------------------------------------------- path mapper
get_dme_directory(full_path, initial_path, vault_name) ==
    LET joined == vault_name \o <<"/">>
                    \o SubSeq(full_path, Len(initial_path) + 1, Len(full_path))
        path == ReplaceDoubleSlash(joined)
    IN  IF path[1] # "/" THEN <<"/">> \o path ELSE path

\* ------------------------------------------------------------ metadata differ
Digits == {"0", "1", "2", "3", "4", "5", "6", "7", "8", "9"}

DigitValue(c) ==
    CASE c = "0" -> 0 [] c = "1" -> 1 [] c = "2" -> 2 [] c = "3" -> 3
      [] c = "4" -> 4 [] c = "5" -> 5 [] c = "6" -> 6 [] c = "7" -> 7
      [] c = "8" -> 8 [] c = "9" -> 9

RECURSIVE DigitsValue(_)
DigitsValue(s) ==
    IF s = <<>> THEN 0
    ELSE 10 * DigitsValue(SubSeq(s, 1, Len(s) - 1)) + DigitValue(s[Len(s)])

RECURSIVE Pow10(_)
Pow10(n) == IF n = 0 THEN 1 ELSE 10 * Pow10(n - 1)

\* whether Python's float() accepts s, a string of digits, ".", "-" and letters:
\* an optional sign, then digits with at most one "." and at least one digit
FloatParses(s) ==
    LET body == IF s # <<>> /\ s[1] = "-" THEN Tail(s) ELSE s
    IN  /\ \A k \in 1..Len(body) : body[k] \in Digits \cup {"."}
        /\ Cardinality({k \in 1..Len(body) : body[k] = "."}) <= 1
        /\ \E k \in 1..Len(body) : body[k] \in Digits

\* float(s) of a string float() accepts, as mantissa / 10^scale
Float(s) ==
    LET neg == s[1] = "-"
        body == IF neg THEN Tail(s) ELSE s
        digits == SelectSeq(body, LAMBDA c : c # ".")
        dot == Find(body, <<".">>)
    IN  [mantissa |-> IF neg THEN 0 - DigitsValue(digits) ELSE DigitsValue(digits),
         scale |-> IF dot = 0 THEN 0 ELSE Len(body) - dot]

\* float(a) == float(b)
FloatEqual(a, b) ==
    Float(a).mantissa * Pow10(Float(b).scale) = Float(b).mantissa * Pow10(Float(a).scale)

\* mutant of ValuesDiffer: the values go to float() without the test that the
\* strings differ
ValuesDiffer_NoStringTest(local_value, dme_value) ==
    IF FloatParses(local_value) /\ FloatParses(dme_value)
    THEN ~FloatEqual(local_value, dme_value)
    ELSE TRUE

\* mutant of ValuesDiffer: the strings are compared and float() is not tried
ValuesDiffer_StringOnly(local_value, dme_value) == local_value # dme_value

\* validate.py:244-249: whether the pair of values is printed as a modification
ValuesDiffer(local_value, dme_value) ==
    /\ local_value # dme_value
    /\ IF FloatParses(local_value) /\ FloatParses(dme_value)
       THEN ~FloatEqual(local_value, dme_value)
       ELSE TRUE

RECURSIVE Concat(_)
Concat(ss) == IF ss = <<>> THEN <<>> ELSE Head(ss) \o Concat(Tail(ss))

\* mutant of OnlyIn: an entry of b matches when name and value are equal
OnlyIn_ByEntry(a, b) ==
    LET unmatched == SelectSeq(a, LAMBDA e : \A m \in 1..Len(b) : b[m] # e)
    IN  [k \in 1..Len(unmatched) |-> unmatched[k].attribute]

\* the attributes of the entries of a whose name no entry of b carries
OnlyIn(a, b) ==
    LET names == [k \in 1..Len(a) |-> a[k].attribute]
    IN  SelectSeq(names, LAMBDA n : \A m \in 1..Len(b) : b[m].attribute # n)

\* validate.py:204-211: one append per pair (i, j) of equal names
BothIn(meta_dme, meta_local) ==
    Concat([k \in 1..Len(meta_dme) |->
              Concat([m \in 1..Len(meta_local) |->
                        IF meta_dme[k].attribute = meta_local[m].attribute
                        THEN <<meta_dme[k].attribute>> ELSE <<>>])])

get_different_fields(meta_dme, meta_local) ==
    [items_only_dme |-> OnlyIn(meta_dme, meta_local),
     items_only_local |-> OnlyIn(meta_local, meta_dme),
     items_both |-> BothIn(meta_dme, meta_local)]

\* validate.py:229-233: the "will be appended" lines
AppendedLines(meta_local, items_only_local) ==
    Concat([k \in 1..Len(items_only_local) |->
              Concat([m \in 1..Len(meta_local) |->
                        IF meta_local[m].attribute = items_only_local[k]
                        THEN <<[attribute |-> meta_local[m].attribute,
                                value |-> meta_local[m].value]>>
                        ELSE <<>>])])

\* validate.py:234-249: the "will be modified" lines
ModifiedLines(meta_dme, meta_local, items_both) ==
    Concat([k \in 1..Len(items_both) |->
      Concat([m \in 1..Len(meta_local) |->
        IF meta_local[m].attribute # items_both[k] THEN <<>>
        ELSE Concat([n \in 1..Len(meta_dme) |->
               IF meta_dme[n].attribute # items_both[k] THEN <<>>
               ELSE IF ValuesDiffer(meta_local[m].value, meta_dme[n].value)
                    THEN <<[attribute |-> items_both[k],
                            old_value |-> meta_dme[n].value,
                            new_value |-> meta_local[m].value]>>
                    ELSE <<>>])])])

evaluate_differences(meta_dme, meta_local) ==
    LET f == get_different_fields(meta_dme, meta_local)
    IN  [counts |-> <<Len(f.items_only_dme), Len(f.items_only_local), Len(f.items_both)>>,
         appended |-> AppendedLines(meta_local, f.items_only_local),
         modified |-> ModifiedLines(meta_dme, meta_local, f.items_both)]

\* ------------------------------------------------------------- remote catalog
\* what the remote catalog answers to one GET
Responses ==
    { [status |-> 200, body |-> "entries"],
      [status |-> 200, body |-> "empty"],
      [status |-> 500, body |-> "empty"] }

\* DMESession.get_collection_dme_meta(path, in_pairs=False): the metadata of a
\* collection, empty when the collection is not registered; raises on a
\* response that is not a success
get_collection_dme_meta(resp) ==
    [raised |-> resp.status # 200, meta_dme |-> resp.body]

\* DMESession.get_dataObject_dme_meta(path, in_pairs=False) as validate.py:256
\* calls it: raises on a status other than 200 (dme_utils.py:122-124) and gives
\* the metadata of the data object, empty when it is not registered.  The
\* method at dme_utils.py:102 takes no in_pairs; the session validate.py calls
\* is taken to answer as its collection call does.
get_dataObject_dme_meta(resp) ==
    [raised |-> resp.status # 200, meta_dme |-> resp.body]

\* mutant of evaluate_metadata_differences: the exception of the session call
\* is caught and the node taken as not registered
evaluate_metadata_differences_swallow(got, level) ==
    IF got.raised \/ got.meta_dme = "empty"
    THEN [raised |-> FALSE, exists |-> FALSE,
          printed |-> <<[level |-> level, msg |-> "does not exist on DME!"]>>]
    ELSE [raised |-> FALSE, exists |-> TRUE,
          printed |-> <<[level |-> level, msg |-> "already exists on DME!"]>>]

\* evaluate_metadata_differences on what the session call gave: an exception is
\* not caught, an empty result prints "does not exist" and returns False
evaluate_metadata_differences(got, level) ==
    IF got.raised
    THEN [raised |-> TRUE, exists |-> FALSE, printed |-> <<>>]
    ELSE IF got.meta_dme = "empty"
         THEN [raised |-> FALSE, exists |-> FALSE,
               printed |-> <<[level |-> level, msg |-> "does not exist on DME!"]>>]
         ELSE [raised |-> FALSE, exists |-> TRUE,
               printed |-> <<[level |-> level, msg |-> "already exists on DME!"]>>]

\* ----------------------------------------------------------- command line
\* config['.vaults']
Vaults == { <<"CCBR_Archive">>, <<"CCBR_EXT_Archive">>, <<"CCR_DTB_Archive">> }

HelpFlags == { <<"-h">>, <<"--help">> }

\* the words a command line is made of
ArgValues == { <<"-h">>, <<"in">>, <<"CCBR_Archive", "/">>, <<"Not_A_Vault">> }

\* the directories of the file system os.path.isdir answers True for
ExistingDirs == { <<"in">> }

\* args(argslist) on sys.argv[1:]: what it prints and whether it returns
args(user_args) ==
    IF \E k \in 1..Len(user_args) : user_args[k] \in HelpFlags
    THEN [returns |-> FALSE, code |-> 0, msg |-> "help"]
    ELSE IF Len(user_args) # 2
         THEN [returns |-> FALSE, code |-> 1,
               msg |-> "Error: Failed to provide all required arguments"]
         ELSE [returns |-> TRUE, code |-> 0, msg |-> ""]

\* mutant of validate_args: the assert on the vault is not made
validate_args_unasserted(user_inputs) ==
    [asserted |-> TRUE, ipath |-> user_inputs[1], vault |-> RemoveSlash(user_inputs[2])]

\* validate_args up to its assert: the vault without "/" and whether the assert holds
validate_args(user_inputs) ==
    LET v == RemoveSlash(user_inputs[2])
    IN  [asserted |-> v \in Vaults, ipath |-> user_inputs[1], vault |-> v]

\* path_exists(path)
path_exists(path) == path \in ExistingDirs

\* ---------------------------------------------------------------- the state
VARIABLES
    pc,            \* main: the statement main() is at
    argv,          \* main: sys.argv[1:]
    ipath,         \* main: the input directory
    vault,         \* main: the vault, "/" removed
    pi,            \* main: pi_meta, pi_dir
    proj,          \* main: proj_meta, proj_dir
    analysis,      \* main: analysis_meta, analysis_dir
    analysis_objs, \* main: analysis_objs, analysis_objs_dir
    samples,       \* main: samples_meta, samples_dir
    sample_objs,   \* main: sample_objs, sample_objs_dir, one pair per sample
    proj_ls,       \* the file system: the listing of the Project directory
    fs_log,        \* the file-system calls made so far
    fetches,       \* the GETs sent to the remote catalog so far
    out,           \* what was printed so far (reports and error messages)
    exit_code,     \* the exit status, -1 while the process runs
    i,             \* main: the loop variable i
    j,             \* main: the loop variable j
    w_pc, w_fn, w_listing, w_result,           \* one call of a walker function
    d_pc, meta_dme, meta_local, d_fields, d_report,  \* one call of the differ
    p_pc, p_full, p_root, p_vault, p_result    \* one call of the path mapper

mainVars ==
    <<pc, argv, ipath, vault, pi, proj, analysis, analysis_objs, samples,
      sample_objs, proj_ls, fs_log, fetches, out, exit_code, i, j>>

walkVars == <<w_pc, w_fn, w_listing, w_result>>

diffVars == <<d_pc, meta_dme, meta_local, d_fields, d_report>>

pathVars == <<p_pc, p_full, p_root, p_vault, p_result>>

vars == <<mainVars, walkVars, diffVars, pathVars>>

NoNode == [meta |-> <<>>, dir |-> <<>>]

NoNodes == [metas |-> <<>>, directories |-> <<>>]

\* main() not started: the state of a run that only calls one function
MainIdle ==
    /\ pc = "idle" /\ argv = <<>> /\ ipath = <<>> /\ vault = <<>>
    /\ pi = NoNode /\ proj = NoNode /\ analysis = NoNode
    /\ analysis_objs = NoNodes /\ samples = NoNodes /\ sample_objs = <<>>
    /\ proj_ls = <<>> /\ fs_log = <<>> /\ fetches = <<>> /\ out = <<>>
    /\ exit_code = -1 /\ i = 0 /\ j = 0

WalkIdle == w_pc = "idle" /\ w_fn = "" /\ w_listing = <<>> /\ w_result = Exited

DiffIdle ==
    /\ d_pc = "idle" /\ meta_dme = <<>> /\ meta_local = <<>>
    /\ d_fields = get_different_fields(<<>>, <<>>)
    /\ d_report = evaluate_differences(<<>>, <<>>)

PathIdle ==
    p_pc = "idle" /\ p_full = <<>> /\ p_root = <<>> /\ p_vault = <<>> /\ p_result = <<>>

\* ------------------------------------------------------------------- main()
MainInit ==
    /\ pc = "args"
    /\ argv \in SeqsUpTo(ArgValues, MaxArgs)
    /\ ipath = <<>> /\ vault = <<>>
    /\ pi = NoNode /\ proj = NoNode /\ analysis = NoNode
    /\ analysis_objs = NoNodes /\ samples = NoNodes /\ sample_objs = <<>>
    /\ proj_ls = <<>> /\ fs_log = <<>> /\ fetches = <<>> /\ out = <<>>
    /\ exit_code = -1 /\ i = 0 /\ j = 0

Init == MainInit /\ WalkIdle /\ DiffIdle /\ PathIdle

FsCall(op, path) == [op |-> op, path |-> path]

\* the process ends with status code after printing msgs
Exit(code, msgs) ==
    /\ pc' = "exit"
    /\ exit_code' = code
    /\ out' = out \o msgs

Message(level, msg) == <<[level |-> level, msg |-> msg]>>

\* validate.py:271: args(sys.argv)
Args ==
    /\ pc = "args"
    /\ LET a == args(argv)
       IN  IF a.returns
           THEN pc' = "validate_args" /\ UNCHANGED <<out, exit_code>>
           ELSE Exit(a.code, Message("argv", a.msg))
    /\ UNCHANGED <<argv, ipath, vault, pi, proj, analysis, analysis_objs, samples,
                   sample_objs, proj_ls, fs_log, fetches, i, j>>
    /\ UNCHANGED <<walkVars, diffVars, pathVars>>

\* validate.py:271: validate_args(...)
ValidateArgs ==
    /\ pc = "validate_args"
    /\ LET v == validate_args(argv)
       IN  IF ~v.asserted
           THEN /\ Exit(1, Message("argv", "AssertionError: not a vaild DME vault"))
                /\ UNCHANGED <<ipath, vault, fs_log>>
           ELSE /\ fs_log' = Append(fs_log, FsCall("isdir", v.ipath))
                /\ IF path_exists(v.ipath)
                   THEN /\ ipath' = v.ipath /\ vault' = v.vault
                        /\ pc' = "get_pi_lab"
                        /\ UNCHANGED <<out, exit_code>>
                   ELSE /\ Exit(1, Message("argv", "Error: PATH not accessible!"))
                        /\ UNCHANGED <<ipath, vault>>
    /\ UNCHANGED <<argv, pi, proj, analysis, analysis_objs, samples, sample_objs,
                   proj_ls, fetches, i, j>>
    /\ UNCHANGED <<walkVars, diffVars, pathVars>>

Node(r) == [meta |-> r.meta, dir |-> r.directory]

\* validate.py:274: get_pi_lab(ipath); ipath was just checked to be a directory
GetPiLab ==
    /\ pc = "get_pi_lab"
    /\ \E l \in DirListings :
         LET r == get_pi_lab(ipath, l)
         IN  IF r.ok
             THEN /\ pi' = Node(r)
                  /\ fs_log' = fs_log \o <<FsCall("listdir", ipath), FsCall("open", r.meta)>>
                  /\ pc' = "get_project"
                  /\ UNCHANGED <<out, exit_code>>
             ELSE /\ fs_log' = Append(fs_log, FsCall("listdir", ipath))
                  /\ Exit(1, Message("PI_Lab", "Error: Could not find an unique"))
                  /\ UNCHANGED pi
    /\ UNCHANGED <<argv, ipath, vault, proj, analysis, analysis_objs, samples,
                   sample_objs, proj_ls, fetches, i, j>>
    /\ UNCHANGED <<walkVars, diffVars, pathVars>>

\* validate.py:275: get_project(pi_dir); os.listdir raises when pi_dir is no directory
GetProject ==
    /\ pc = "get_project"
    /\ \/ /\ fs_log' = Append(fs_log, FsCall("listdir", pi.dir))
          /\ Exit(1, Message("Project", "FileNotFoundError"))
          /\ UNCHANGED proj
       \/ \E l \in DirListings :
            LET r == get_project(pi.dir, l)
            IN  IF r.ok
                THEN /\ proj' = Node(r)
                     /\ fs_log' = fs_log \o <<FsCall("listdir", pi.dir), FsCall("open", r.meta)>>
                     /\ pc' = "get_analysis"
                     /\ UNCHANGED <<out, exit_code>>
                ELSE /\ fs_log' = Append(fs_log, FsCall("listdir", pi.dir))
                     /\ Exit(1, Message("Project", "Error: Could not find an unique"))
                     /\ UNCHANGED proj
    /\ UNCHANGED <<argv, ipath, vault, pi, analysis, analysis_objs, samples,
                   sample_objs, proj_ls, fetches, i, j>>
    /\ UNCHANGED <<walkVars, diffVars, pathVars>>

OpenAll(metas) == [k \in 1..Len(metas) |-> FsCall("open", metas[k])]

\* validate.py:276: get_analysis(proj_dir), with its call of get_analysis_objects
GetAnalysis ==
    /\ pc = "get_analysis"
    /\ \/ /\ fs_log' = Append(fs_log, FsCall("listdir", proj.dir))
          /\ Exit(1, Message("Primary Analysis", "FileNotFoundError"))
          /\ UNCHANGED <<analysis, analysis_objs, proj_ls>>
       \/ \E l \in DirListings :
            LET r == get_analysis(proj.dir, l)
            IN  /\ proj_ls' = l
                /\ IF ~r.ok
                   THEN /\ fs_log' = Append(fs_log, FsCall("listdir", proj.dir))
                        /\ Exit(1, Message("Primary Analysis", "Error: Could not find an unique"))
                        /\ UNCHANGED <<analysis, analysis_objs>>
                   ELSE \/ /\ fs_log' = fs_log \o <<FsCall("listdir", proj.dir),
                                                    FsCall("open", r.meta),
                                                    FsCall("listdir", r.directory)>>
                           /\ Exit(1, Message("Primary Analysis", "FileNotFoundError"))
                           /\ UNCHANGED <<analysis, analysis_objs>>
                        \/ \E ol \in ObjListings :
                             LET o == get_analysis_objects(r.directory, ol)
                             IN  /\ analysis' = Node(r)
                                 /\ analysis_objs' = o
                                 /\ fs_log' = fs_log \o <<FsCall("listdir", proj.dir),
                                                          FsCall("open", r.meta),
                                                          FsCall("listdir", r.directory)>>
                                                    \o OpenAll(o.metas)
                                 /\ pc' = "get_samples"
                                 /\ UNCHANGED <<out, exit_code>>
    /\ UNCHANGED <<argv, ipath, vault, pi, proj, samples, sample_objs, fetches, i, j>>
    /\ UNCHANGED <<walkVars, diffVars, pathVars>>

\* validate.py:277: get_samples(proj_dir), with its calls of get_sample_objects;
\* the Project directory lists as it did in get_analysis
GetSamples ==
    /\ pc = "get_samples"
    /\ LET s == get_samples(proj.dir, proj_ls)
           n == Len(s.metas)
           before == fs_log \o <<FsCall("listdir", proj.dir)>> \o OpenAll(s.metas)
       IN  \/ /\ n > 0
              /\ \E k \in 1..n :
                   fs_log' = before \o [m \in 1..k |-> FsCall("listdir", s.directories[m])]
              /\ Exit(1, Message("Sample", "FileNotFoundError"))
              /\ UNCHANGED <<samples, sample_objs>>
           \/ \E ols \in [1..n -> ObjListings] :
                LET objs == [k \in 1..n |-> get_sample_objects(s.directories[k], ols[k])]
                IN  /\ samples' = s
                    /\ sample_objs' = objs
                    /\ fs_log' = before \o
                         Concat([k \in 1..n |->
                                   <<FsCall("listdir", s.directories[k])>> \o OpenAll(objs[k].metas)])
                    /\ pc' = "session"
                    /\ UNCHANGED <<out, exit_code>>
    /\ UNCHANGED <<argv, ipath, vault, pi, proj, analysis, analysis_objs, proj_ls,
                   fetches, i, j>>
    /\ UNCHANGED <<walkVars, diffVars, pathVars>>

\* validate.py:280: dme.DMESession(): get_dme_url and get_token_from_file exit
\* with status 1 when HPC_DM_UTILS is not set or the token file cannot be opened
Session ==
    /\ pc = "session"
    /\ \/ /\ Exit(1, Message("session", "ERROR: HPC_DM_UTILS not found"))
          /\ UNCHANGED fs_log
       \/ /\ fs_log' = fs_log \o <<FsCall("open", <<"hpcdme.properties">>),
                                   FsCall("open", <<"curl-conf">>)>>
          /\ pc' = "pi"
          /\ UNCHANGED <<out, exit_code>>
    /\ UNCHANGED <<argv, ipath, vault, pi, proj, analysis, analysis_objs, samples,
                   sample_objs, proj_ls, fetches, i, j>>
    /\ UNCHANGED <<walkVars, diffVars, pathVars>>

\* ---------------------------------------------------- reconciliation driver
\* where main() goes on: a statement and the loop variables there
At(where, ii, jj) == [pc |-> where, i |-> ii, j |-> jj]

\* the end of main(): the process exits with status 0
Finished == At("exit", i, j)

\* validate.py:310: the Sample loop from its k-th iteration on
SamplesFrom(k) ==
    IF k <= Len(samples.metas) THEN At("samples", k, j) ELSE At("exit", i, j)

\* validate.py:304: the Data-Object loop of the Primary Analysis from its k-th iteration on
AnalysisObjsFrom(k) ==
    IF k <= Len(analysis_objs.metas) THEN At("analysis_objs", k, j) ELSE SamplesFrom(1)

\* validate.py:317: the Data-Object loop of Sample s from its k-th iteration on
SampleObjsFrom(s, k) ==
    IF k <= Len(sample_objs[s].metas) THEN At("sample_objs", s, k) ELSE SamplesFrom(s + 1)

\* mutant of AfterPi: the Project is checked whether PI_Lab exists or not
AfterPi_Ungated(pi_exists) == At("proj", i, j)

\* validate.py:290: if (pi_exists)
AfterPi(pi_exists) == IF pi_exists THEN At("proj", i, j) ELSE Finished

\* validate.py:296: if (proj_exists)
AfterProj(proj_exists) == IF proj_exists THEN At("analysis", i, j) ELSE Finished

\* mutant of AfterAnalysis: the Sample loop moved under if (analysis_exists)
AfterAnalysis_SamplesGated(analysis_exists) ==
    IF analysis_exists THEN AnalysisObjsFrom(1) ELSE Finished

\* mutant of AfterAnalysis: the Data-Object loop runs without if (analysis_exists)
AfterAnalysis_ObjectsUngated(analysis_exists) == AnalysisObjsFrom(1)

\* validate.py:302: if (analysis_exists), then the Sample loop either way
AfterAnalysis(analysis_exists) ==
    IF analysis_exists THEN AnalysisObjsFrom(1) ELSE SamplesFrom(1)

\* validate.py:315: if (sample_exists), then the next Sample
AfterSample(sample_exists, s) ==
    IF sample_exists THEN SampleObjsFrom(s, 1) ELSE SamplesFrom(s + 1)

\* one GET: the node asked for and the answer
Fetched(level, idx, sub, dir, resp) ==
    [level |-> level, idx |-> idx, sub |-> sub, local |-> dir,
     remote |-> get_dme_directory(dir, ipath, vault),
     status |-> resp.status, body |-> resp.body]

\* one call of evaluate_metadata_differences in main(): f the GET, r its result,
\* pos where main() goes on when nothing was raised
Check(f, r, pos) ==
    /\ fetches' = Append(fetches, f)
    /\ IF r.raised
       THEN /\ Exit(1, Message(f.level, "Exception: Response code"))
            /\ UNCHANGED <<i, j>>
       ELSE /\ out' = out \o r.printed
            /\ pc' = pos.pc /\ i' = pos.i /\ j' = pos.j
            /\ exit_code' = IF pos.pc = "exit" THEN 0 ELSE exit_code
    /\ UNCHANGED <<argv, ipath, vault, pi, proj, analysis, analysis_objs, samples,
                   sample_objs, proj_ls, fs_log>>
    /\ UNCHANGED <<walkVars, diffVars, pathVars>>

\* validate.py:286-288
CheckPiLab ==
    /\ pc = "pi"
    /\ \E resp \in Responses :
         LET r == evaluate_metadata_differences(get_collection_dme_meta(resp), "PI_Lab")
         IN  Check(Fetched("PI_Lab", 0, 0, pi.dir, resp), r, AfterPi(r.exists))

\* validate.py:292-294
CheckProject ==
    /\ pc = "proj"
    /\ \E resp \in Responses :
         LET r == evaluate_metadata_differences(get_collection_dme_meta(resp), "Project")
         IN  Check(Fetched("Project", 0, 0, proj.dir, resp), r, AfterProj(r.exists))

\* validate.py:298-300
CheckAnalysis ==
    /\ pc = "analysis"
    /\ \E resp \in Responses :
         LET r == evaluate_metadata_differences(get_collection_dme_meta(resp),
                                                "Primary Analysis")
         IN  Check(Fetched("Primary Analysis", 0, 0, analysis.dir, resp), r,
                   AfterAnalysis(r.exists))

\* validate.py:305-307: the body of the loop over analysis_objs
CheckAnalysisObject ==
    /\ pc = "analysis_objs"
    /\ \E resp \in Responses :
         LET r == evaluate_metadata_differences(get_dataObject_dme_meta(resp), "DataObject")
         IN  Check(Fetched("DataObject", 0, i, analysis_objs.directories[i], resp), r,
                   AnalysisObjsFrom(i + 1))

\* validate.py:311-313: the body of the loop over samples_meta
CheckSample ==
    /\ pc = "samples"
    /\ \E resp \in Responses :
         LET r == evaluate_metadata_differences(get_collection_dme_meta(resp), "Sample")
         IN  Check(Fetched("Sample", i, 0, samples.directories[i], resp), r,
                   AfterSample(r.exists, i))

\* validate.py:318-320: the body of the loop over sample_objs[i]
CheckSampleObject ==
    /\ pc = "sample_objs"
    /\ \E resp \in Responses :
         LET r == evaluate_metadata_differences(get_dataObject_dme_meta(resp), "DataObject")
         IN  Check(Fetched("DataObject", i, j, sample_objs[i].directories[j], resp), r,
                   SampleObjsFrom(i, j + 1))

Next ==
    \/ Args \/ ValidateArgs
    \/ GetPiLab \/ GetProject \/ GetAnalysis \/ GetSamples \/ Session
    \/ CheckPiLab \/ CheckProject \/ CheckAnalysis \/ CheckAnalysisObject
    \/ CheckSample \/ CheckSampleObject

Spec == Init /\ [][Next]_vars

\* ===================================================== properties of main()
Present(f) == f.status = 200 /\ f.body = "entries"

Absent(f) == f.status = 200 /\ f.body = "empty"

Failed(f) == f.status # 200

\* the line evaluate_metadata_differences prints for an answered GET
ReportOf(f) ==
    [level |-> f.level,
     msg |-> IF Absent(f) THEN "does not exist on DME!" ELSE "already exists on DME!"]

\* the GETs sent for nodes of one level
FetchesOf(level) == SelectSeq(fetches, LAMBDA f : f.level = level)

\* the GETs sent for the Data Objects of parent idx (0: the Primary Analysis)
ObjectFetchesOf(idx) ==
    SelectSeq(fetches, LAMBDA f : f.level = "DataObject" /\ f.idx = idx)

Locals(fs) == [k \in 1..Len(fs) |-> fs[k].local]

\* C1: when the GET for PI_Lab is answered empty, "PI_Lab does not exist" is
\* reported, no other GET is sent and the run exits 0; when PI_Lab exists and
\* the GET for the Project is answered empty, no GET follows the Project's and
\* the run exits 0.
C1_AbsentParentEndsWalk ==
    /\ Len(fetches) >= 1 => fetches[1].level = "PI_Lab"
    /\ (Len(fetches) >= 1 /\ Absent(fetches[1])) =>
          /\ Len(fetches) = 1
          /\ out = <<[level |-> "PI_Lab", msg |-> "does not exist on DME!"]>>
          /\ pc = "exit" /\ exit_code = 0
    /\ Len(fetches) >= 2 => Present(fetches[1]) /\ fetches[2].level = "Project"
    /\ (Len(fetches) >= 2 /\ Absent(fetches[2])) =>
          /\ Len(fetches) = 2
          /\ out[2] = [level |-> "Project", msg |-> "does not exist on DME!"]
          /\ pc = "exit" /\ exit_code = 0

\* C1 witness: PI_Lab answered empty for a hierarchy that has a Sample with a
\* Data Object and a Primary Analysis with a Data Object
C1_Witness ==
    /\ Len(fetches) = 1 /\ Absent(fetches[1]) /\ exit_code = 0
    /\ Len(analysis_objs.metas) > 0
    /\ Len(samples.metas) > 0 /\ Len(sample_objs[1].metas) > 0

C3_ObjectsOfAbsentParentReported ==
    (exit_code = 0 /\ Len(fetches) >= 3 /\ Absent(fetches[3])) =>
       /\ Len(ObjectFetchesOf(0)) = Len(analysis_objs.metas)
       /\ \A s \in 1..Len(samples.metas) :
             Absent(FetchesOf("Sample")[s]) =>
                Len(ObjectFetchesOf(s)) = Len(sample_objs[s].metas)

\* C3 amended: an absent Primary Analysis or Sample is reported as not
\* existing, no Data Object of it is fetched or reported, and a run in which
\* every GET was answered ends with status 0.
C3_AbsentParentSkipsObjects ==
    /\ \A k \in 1..Len(fetches) :
          (Absent(fetches[k]) /\ fetches[k].level \in {"Primary Analysis", "Sample"}) =>
             /\ out[k] = [level |-> fetches[k].level, msg |-> "does not exist on DME!"]
             /\ ObjectFetchesOf(fetches[k].idx) = <<>>
    /\ Len(FetchesOf("DataObject")) = Len(SelectSeq(out, LAMBDA o : o.level = "DataObject"))
    /\ (pc = "exit" /\ fetches # <<>> /\ ~Failed(fetches[Len(fetches)])) => exit_code = 0

\* C3 witness: the end-to-end scenario: Primary Analysis with 2 Data Objects
\* and one Sample with a Data Object, both absent remotely, exit 0
C3_Witness ==
    /\ exit_code = 0 /\ Len(fetches) = 4
    /\ Present(fetches[1]) /\ Present(fetches[2])
    /\ Absent(fetches[3]) /\ Absent(fetches[4])
    /\ Len(analysis_objs.metas) = 2
    /\ Len(samples.metas) = 1 /\ Len(sample_objs[1].metas) = 1

\* C4: a GET answered with a status other than 200 is the last GET of the
\* run (nothing is fetched after it, it is not sent again), nothing is
\* reported for it, the process has ended with status 1, and the reports of
\* the GETs before it stand as printed.
C4_FetchFailureAborts ==
    \A k \in 1..Len(fetches) :
       Failed(fetches[k]) =>
          /\ k = Len(fetches)
          /\ \A m \in 1..(k - 1) : fetches[m].remote # fetches[k].remote
          /\ pc = "exit" /\ exit_code = 1
          /\ Len(out) = k
          /\ SubSeq(out, 1, k - 1) = [m \in 1..(k - 1) |-> ReportOf(fetches[m])]
          /\ out[k].msg = "Exception: Response code"

\* C4 witness: the GET for the first Sample fails after three reports, with a
\* second Sample and Data Objects still unvisited
C4_Witness ==
    /\ Len(fetches) = 4 /\ Failed(fetches[4]) /\ fetches[4].level = "Sample"
    /\ Len(out) = 4 /\ exit_code = 1
    /\ Len(samples.metas) = 2 /\ Len(sample_objs[1].metas) > 0

\* C5: with two arguments, none a help flag, and a vault that is not in the
\* allow-list once "/" is removed, the run ends with status 1 on the vault
\* error, having made no file-system call and sent no GET.
C5_BadVaultExitsFirst ==
    (/\ Len(argv) = 2
     /\ \A k \in 1..Len(argv) : argv[k] \notin HelpFlags
     /\ RemoveSlash(argv[2]) \notin Vaults
     /\ pc \notin {"args", "validate_args"}) =>
        /\ pc = "exit" /\ exit_code = 1
        /\ out = <<[level |-> "argv", msg |-> "AssertionError: not a vaild DME vault"]>>
        /\ fs_log = <<>> /\ fetches = <<>>

\* C5 witness: the input directory exists and the vault is Not_A_Vault
C5_Witness ==
    /\ argv = << <<"in">>, <<"Not_A_Vault">> >>
    /\ pc = "exit" /\ exit_code = 1

\* ============================================ one call of a walker function
\* most entries of the listing a walker function is called on
MaxWalkFiles == 2

\* names the listing is drawn from: sidecars of every level, a second PI_Lab,
\* stems that hold a ".", a backup copy of a sidecar, a Data-Object sidecar
\* and a directory
WalkNames ==
    { Sidecar(m, <<"a">>) : m \in Markers }
      \cup { Sidecar("PI_Lab", <<"b">>) }
      \cup { Sidecar(m, <<"a", ".", "b">>) : m \in {"PI_Lab", "Project_", "Primary_Analysis_"} }
      \cup { Sidecar("PI_Lab", <<"a">>) \o <<".", "bak">>,
             <<"a">> \o Suffix,
             <<"PI_Lab", "a">> }

WalkListings == DistinctSeqs(WalkNames, MaxWalkFiles)

WalkFunctions == {"get_pi_lab", "get_project", "get_analysis", "get_samples"}

\* the directory the function is called on
WalkPath == <<"in">>

WalkInit ==
    /\ w_pc = "call"
    /\ w_fn \in WalkFunctions
    /\ w_listing \in WalkListings
    /\ w_result = Exited

InitWalk == MainIdle /\ WalkInit /\ DiffIdle /\ PathIdle

\* what a call leaves: returned with r, or the process ended
Returns(r) ==
    /\ w_result' = r
    /\ w_pc' = IF r.ok THEN "returned" ELSE "exited"
    /\ UNCHANGED <<w_fn, w_listing>>
    /\ UNCHANGED <<mainVars, diffVars, pathVars>>

\* os.listdir raised inside the call
Raises ==
    /\ w_pc' = "raised"
    /\ UNCHANGED <<w_fn, w_listing, w_result>>
    /\ UNCHANGED <<mainVars, diffVars, pathVars>>

\* validate.py:126-136
WalkGetPiLab ==
    /\ w_pc = "call" /\ w_fn = "get_pi_lab"
    /\ Returns(get_pi_lab(WalkPath, w_listing))

\* validate.py:138-148
WalkGetProject ==
    /\ w_pc = "call" /\ w_fn = "get_project"
    /\ Returns(get_project(WalkPath, w_listing))

\* validate.py:158-169: get_analysis lists the directory it found
WalkGetAnalysis ==
    /\ w_pc = "call" /\ w_fn = "get_analysis"
    /\ LET r == get_analysis(WalkPath, w_listing)
       IN  IF ~r.ok THEN Returns(r)
           ELSE \/ Raises
                \/ \E ol \in WalkListings :
                     LET o == get_analysis_objects(r.directory, ol)
                     IN  Returns([ok |-> TRUE, meta |-> r.meta, directory |-> r.directory,
                                  listed |-> <<ol>>,
                                  objects |-> o.metas, objects_dir |-> o.directories])

\* validate.py:179-187: get_samples lists every directory it found
WalkGetSamples ==
    /\ w_pc = "call" /\ w_fn = "get_samples"
    /\ LET s == get_samples(WalkPath, w_listing)
           n == Len(s.metas)
       IN  \/ n > 0 /\ Raises
           \/ \E ols \in [1..n -> ObjListings] :
                LET objs == [k \in 1..n |-> get_sample_objects(s.directories[k], ols[k])]
                IN  Returns([ok |-> TRUE, metas |-> s.metas, directories |-> s.directories,
                             listed |-> ols,
                             objects |-> [k \in 1..n |-> objs[k].metas],
                             objects_dir |-> [k \in 1..n |-> objs[k].directories]])

NextWalk == WalkGetPiLab \/ WalkGetProject \/ WalkGetAnalysis \/ WalkGetSamples

SpecWalk == InitWalk /\ [][NextWalk]_vars

\* the marker of the level a unique-match walker looks for
MarkerOf(fn) ==
    CASE fn = "get_pi_lab" -> "PI_Lab"
      [] fn = "get_project" -> "Project_"
      [] fn = "get_analysis" -> "Primary_Analysis_"

\* s ends with suffix
EndsWith(s, suffix) ==
    Len(s) >= Len(suffix) /\ SubSeq(s, Len(s) - Len(suffix) + 1, Len(s)) = suffix

\* the files of the listing that carry the marker and end in .metadata.json
SidecarsOf(listing, marker) ==
    SelectSeq(listing, LAMBDA f : Has(f, <<marker>>) /\ EndsWith(f, Suffix))

\* C6: get_pi_lab, get_project and get_analysis, on a listing with exactly one
\* file that carries the marker and ends in .metadata.json, return that file's
\* document and the directory named as the file without .metadata.json; on a
\* listing with none or several they end the process, and no GET was sent.
\* Stated for the listings in which every name that holds .metadata.json ends
\* in it, where "holds" and "ends in" select the same files.
C6_UniqueSidecarAndSibling ==
    (/\ w_fn \in {"get_pi_lab", "get_project", "get_analysis"}
     /\ w_pc \in {"returned", "exited"}
     /\ \A k \in 1..Len(w_listing) :
           Has(w_listing[k], Suffix) => EndsWith(w_listing[k], Suffix)) =>
       LET m == SidecarsOf(w_listing, MarkerOf(w_fn))
       IN  /\ fetches = <<>>
           /\ IF Len(m) = 1
              THEN /\ w_pc = "returned"
                   /\ w_result.meta = json2dict(WalkPath, m[1])
                   /\ w_result.directory =
                        WalkPath \o <<"/">> \o SubSeq(m[1], 1, Len(m[1]) - Len(Suffix))
              ELSE w_pc = "exited"

\* the files of the listing that end in .metadata.json and carry no marker
UnmarkedSidecarsOf(listing) ==
    SelectSeq(listing, LAMBDA f : EndsWith(f, Suffix) /\ \A m \in Markers : ~Has(f, <<m>>))

\* the files of the listing whose name holds .metadata.json
HoldersOf(listing) ==
    SelectSeq(listing, LAMBDA f : \E k \in 0..Len(f) : IsPrefix(Suffix, SubSeq(f, k + 1, Len(f))))

\* the part of f before its first .metadata.json
BeforeSuffix(f) ==
    LET cuts == { k \in 0..Len(f) : IsPrefix(Suffix, SubSeq(f, k + 1, Len(f))) }
    IN  SubSeq(f, 1, CHOOSE k \in cuts : \A c \in cuts : k <= c)

\* the directories and the listings of the Data-Object scans of a returned
\* call: one for get_analysis, one per Sample for get_samples
ScannedDirs ==
    IF w_fn = "get_analysis" THEN <<w_result.directory>> ELSE w_result.directories

ScannedObjects ==
    IF w_fn = "get_analysis" THEN <<w_result.objects>> ELSE w_result.objects

ScannedObjectsDir ==
    IF w_fn = "get_analysis" THEN <<w_result.objects_dir>> ELSE w_result.objects_dir

ObjectsScanned == w_pc = "returned" /\ w_fn \in {"get_analysis", "get_samples"}

MaxEntries == 2

\* attribute names; "x" and "X" differ only in case
Attrs == {"x", "X"}

\* the value strings "3", "3.0", "3a" and "4"
Values == { <<"3">>, <<"3", ".", "0">>, <<"3", "a">>, <<"4">> }

EntryLists == SeqsUpTo([attribute : Attrs, value : Values], MaxEntries)

DiffInit ==
    /\ d_pc = "call"
    /\ meta_dme \in EntryLists
    /\ meta_local \in EntryLists
    /\ d_fields = get_different_fields(<<>>, <<>>)
    /\ d_report = evaluate_differences(<<>>, <<>>)

InitDiff == MainIdle /\ WalkIdle /\ DiffInit /\ PathIdle

\* validate.py:227: evaluate_differences calls get_different_fields
DiffFields ==
    /\ d_pc = "call"
    /\ d_fields' = get_different_fields(meta_dme, meta_local)
    /\ d_pc' = "fields"
    /\ UNCHANGED <<meta_dme, meta_local, d_report>>
    /\ UNCHANGED <<mainVars, walkVars, pathVars>>

\* validate.py:228-249: evaluate_differences prints the counts and the lines
DiffReport ==
    /\ d_pc = "fields"
    /\ d_report' = evaluate_differences(meta_dme, meta_local)
    /\ d_pc' = "done"
    /\ UNCHANGED <<meta_dme, meta_local, d_fields>>
    /\ UNCHANGED <<mainVars, walkVars, pathVars>>

NextDiff == DiffFields \/ DiffReport

SpecDiff == InitDiff /\ [][NextDiff]_vars

NamesOf(entries) == {entries[k].attribute : k \in 1..Len(entries)}

\* C7 as stated: diffing any D against itself, also one in which a name
\* repeats, gives no only-remote name, no only-local name, no modified line,
\* and the names of D as `both`.
C7_SelfDiffIsEmpty ==
    (d_pc = "done" /\ meta_dme = meta_local) =>
       /\ d_fields.items_only_dme = <<>>
       /\ d_fields.items_only_local = <<>>
       /\ d_report.modified = <<>>
       /\ Range(d_fields.items_both) = NamesOf(meta_dme)

\* entries of D that share a name carry the same value string
SameNameSameValue(entries) ==
    \A a, b \in 1..Len(entries) :
       entries[a].attribute = entries[b].attribute => entries[a].value = entries[b].value

\* C7 amended: diffing D against itself gives no only-remote name, no
\* only-local name and the names of D as `both`; it gives no modified line when
\* the entries of D that share a name carry the same value (so whenever no
\* name repeats).
C7_SelfDiffUniqueNames ==
    (d_pc = "done" /\ meta_dme = meta_local) =>
       /\ d_fields.items_only_dme = <<>>
       /\ d_fields.items_only_local = <<>>
       /\ d_report.appended = <<>>
       /\ Range(d_fields.items_both) = NamesOf(meta_dme)
       /\ SameNameSameValue(meta_dme) => d_report.modified = <<>>

\* C7 witness: D in which a name repeats with the same value, which is not a
\* number, diffed against itself: four pairs in `both`, no modified line
C7_Witness ==
    /\ d_pc = "done" /\ meta_dme = meta_local
    /\ meta_dme = <<[attribute |-> "x", value |-> <<"3", "a">>],
                    [attribute |-> "x", value |-> <<"3", "a">>]>>
    /\ d_fields.items_both = <<"x", "x", "x", "x">>
    /\ d_report.modified = <<>>

\* C8: only_remote holds exactly the names of remote entries that no local
\* entry carries, only_local exactly the names of local entries that no remote
\* entry carries, both exactly the names in both lists, whatever the values;
\* for disjoint name sets only_remote and only_local are the two name lists
\* and both is empty.
C8_FieldsByNameOnly ==
    d_pc \in {"fields", "done"} =>
       LET A == NamesOf(meta_dme)
           B == NamesOf(meta_local)
       IN  /\ Range(d_fields.items_only_dme) = A \ B
           /\ Range(d_fields.items_only_local) = B \ A
           /\ Range(d_fields.items_both) = A \cap B
           /\ A \cap B = {} =>
                 /\ d_fields.items_only_dme = [k \in 1..Len(meta_dme) |-> meta_dme[k].attribute]
                 /\ d_fields.items_only_local =
                       [k \in 1..Len(meta_local) |-> meta_local[k].attribute]
                 /\ d_fields.items_both = <<>>

\* C8 witness: a name in both lists with different values, one name only
\* remote, one only local
C8_Witness ==
    /\ d_pc = "fields"
    /\ meta_dme = <<[attribute |-> "x", value |-> <<"3">>],
                    [attribute |-> "X", value |-> <<"3">>]>>
    /\ meta_local = <<[attribute |-> "x", value |-> <<"4">>]>>
    /\ d_fields.items_only_dme = <<"X">>
    /\ d_fields.items_both = <<"x">>

\* the number a value string of Values stands for, -1 when it is no number
NumberOf(v) ==
    CASE v = <<"3">> -> 3
      [] v = <<"3", ".", "0">> -> 3
      [] v = <<"4">> -> 4
      [] OTHER -> -1

\* the claim's rule: the strings differ, and not both are numbers of equal value
ChangeExpected(remote_value, local_value) ==
    /\ remote_value # local_value
    /\ ~(NumberOf(remote_value) # -1 /\ NumberOf(remote_value) = NumberOf(local_value))

\* C9: for every remote entry and local entry of the same name, the line
\* {attribute, old_value = remote value, new_value = local value} is printed
\* exactly when the value strings differ and are not two numbers of equal
\* value; nothing else is printed as modified.
C9_ChangeIffValuesDiffer ==
    d_pc = "done" =>
       /\ \A n \in 1..Len(meta_dme), m \in 1..Len(meta_local) :
             meta_dme[n].attribute = meta_local[m].attribute =>
                ( [attribute |-> meta_dme[n].attribute,
                   old_value |-> meta_dme[n].value,
                   new_value |-> meta_local[m].value] \in Range(d_report.modified)
                  <=> ChangeExpected(meta_dme[n].value, meta_local[m].value) )
       /\ \A r \in Range(d_report.modified) :
             \E n \in 1..Len(meta_dme), m \in 1..Len(meta_local) :
                /\ meta_dme[n].attribute = r.attribute /\ meta_dme[n].value = r.old_value
                /\ meta_local[m].attribute = r.attribute /\ meta_local[m].value = r.new_value

\* C9 witness: "3" against "3.0" printed nothing, "3" against "3a" printed a line
C9_Witness ==
    /\ d_pc = "done"
    /\ meta_dme = <<[attribute |-> "x", value |-> <<"3">>],
                    [attribute |-> "X", value |-> <<"3">>]>>
    /\ meta_local = <<[attribute |-> "x", value |-> <<"3", ".", "0">>],
                      [attribute |-> "X", value |-> <<"3", "a">>]>>
    /\ d_report.modified = <<[attribute |-> "X", old_value |-> <<"3">>,
                              new_value |-> <<"3", "a">>]>>

\* ============================================== one call of the path mapper
\* most characters of local_root
MaxRoot == 2

\* most characters of full_local_path after local_root
MaxRest == 4

\* the characters paths are made of: the separator and a letter
PathChars == {"/", "a"}

PathInit ==
    /\ p_pc = "call"
    /\ p_root \in SeqsUpTo(PathChars, MaxRoot)
    /\ \E rest \in SeqsUpTo(PathChars, MaxRest) : p_full = p_root \o rest
    /\ p_vault \in Vaults
    /\ p_result = <<>>

InitPath == MainIdle /\ WalkIdle /\ DiffIdle /\ PathInit

\* validate.py:189-195
PathMap ==
    /\ p_pc = "call"
    /\ p_result' = get_dme_directory(p_full, p_root, p_vault)
    /\ p_pc' = "done"
    /\ UNCHANGED <<p_full, p_root, p_vault>>
    /\ UNCHANGED <<mainVars, walkVars, diffVars>>

NextPath == PathMap

SpecPath == InitPath /\ [][NextPath]_vars

\* s with every run of separators replaced by one separator
RECURSIVE CollapseRuns(_)
CollapseRuns(s) ==
    IF Len(s) < 2 THEN s
    ELSE IF s[1] = "/" /\ s[2] = "/"
         THEN CollapseRuns(Tail(s))
         ELSE <<s[1]>> \o CollapseRuns(Tail(s))

\* C10: for full_local_path with prefix local_root, the result is "/", then
\* vault + "/" + the rest of full_local_path with separators collapsed: it
\* begins with exactly one "/" and holds no "//".
C10_RemotePathIsClean ==
    p_pc = "done" =>
       /\ p_result[1] = "/" /\ p_result[2] # "/"
       /\ ~Has(p_result, <<"/", "/">>)
       /\ p_result = <<"/">> \o CollapseRuns(p_vault \o <<"/">>
                                \o SubSeq(p_full, Len(p_root) + 1, Len(p_full)))

====
